---- MODULE Spec2Model ----
(***************************************************************************)
(* The cache subsystem of the LSBible Python SDK:                          *)
(*   lsbible/cache/memory.py  MemoryCacheProvider (dict with lazy TTL)      *)
(*   lsbible/cache/noop.py    NoopCacheProvider   (always misses)           *)
(*                                                                         *)
(* time.time() is a float number of seconds; the model counts it in ticks  *)
(* of 1/TicksPerSecond second, so that readings strictly between two whole *)
(* seconds exist.  A ttl is a whole number of seconds, as in the code.     *)
(***************************************************************************)
EXTENDS Integers, FiniteSets, Sequences

\* ------------------------------------------------------------------ bounds
TicksPerSecond == 2
MaxClock == 3
MaxTTL == 1
MaxNoopCalls == 2
MaxCalls == 2
MaxTaskClock == 2
MaxStoreClock == 3
MaxTwoClock == 2

Keys == {"a", "b"}
None == "None"
Values == {"v1", "v2", None}
\* ttl: int is not range-checked by set; -1 stands for the negative ones
TTLs == {-1} \cup (0..MaxTTL)
NoPrev == "NoPrev"
NoKey == "-"
Tasks == {"t1", "t2"}
\* the tasks contend for one key, with two values to tell their writes apart
TaskKeys == {"a"}
TaskValues == {"v1", "v2"}
TaskTTLs == {0, 1}
KeyError == "KeyError"

VARIABLES
    cache,      \* self._cache: key -> <<value, expires_at>>, a dict (partial map)
    now,        \* the reading time.time() gives, in ticks
    call,       \* the most recent call on the provider and what it returned
    written,    \* per key: what the callers have done to it so far (see Written)
    noop,       \* what a NoopCacheProvider instance holds: nothing
    nlog,       \* the calls made on a NoopCacheProvider, with their results
    host,       \* what runs: one caller ("one"), "threads", "coop", or one of
                \* the example providers ("file", "redis")
    task,       \* per task: the call it is in, its locals, its last result
    snap,       \* self._cache as the call in progress found it ("coop" only)
    backend,    \* what an example provider stores in: the files of cache_dir
                \* by path, or the Redis keyspace by key
    bcall,      \* the most recent call on the example provider, its result
    insts       \* two MemoryCacheProvider instances: the dict objects there
                \* are (heap), the one each instance's self._cache refers to
                \* (ref), and the most recent call on either (call)

\* the example providers' store: an entry, a file that is not JSON, no
\* file at all; a call on the provider with what went wrong during it
NoFault == "none"
Entry(data, expires, by, ok) ==
    [data |-> data, expires |-> expires, by |-> by, ok |-> ok]
Torn == Entry(None, 0, <<>>, FALSE)
NoFiles == [p \in {} |-> Torn]
StoreCall(op, key, ret, fault) ==
    [op |-> op, key |-> key, ret |-> ret, fault |-> fault]

\* what the one-caller models of the two providers leave alone
stores == <<backend, bcall>>
elsewhere == <<host, task, snap, stores, insts>>

vars == <<cache, now, call, written, noop, nlog,
         host, task, snap, backend, bcall, insts>>

\* ------------------------------------------------- MemoryCacheProvider code
EmptyDict == [k \in {} |-> <<None, 0>>]

\* the comparison turned round: expires_at > time.time()
ExpiredTurned(t, expires_at) == expires_at > t

\* memory.py:59  time.time() > expires_at
Expired(t, expires_at) == t > expires_at

\* the clock reading left out: expires_at = ttl
ExpiresAtNoClock(t, ttl) == ttl * TicksPerSecond

\* a set that treats a negative ttl as 0: time.time() + max(ttl, 0)
ExpiresAtClamped(t, ttl) == t + (IF ttl < 0 THEN 0 ELSE ttl) * TicksPerSecond

\* memory.py:74  expires_at = time.time() + ttl
ExpiresAt(t, ttl) == t + ttl * TicksPerSecond

\* a get that tells a miss from a stored None by a marker of its own
GetResultMarksMiss(c, key, t) ==
    IF key \notin DOMAIN c THEN "Missing"
    ELSE IF Expired(t, c[key][2]) THEN "Missing"
    ELSE c[key][1]

\* memory.py:53-64  what get returns
GetResult(c, key, t) ==
    IF key \notin DOMAIN c THEN None
    ELSE IF Expired(t, c[key][2]) THEN None
    ELSE c[key][1]

\* a lookup that creates the entry it does not find (self._cache a defaultdict)
GetCacheDefault(c, key, t) ==
    IF key \notin DOMAIN c
    THEN [x \in DOMAIN c \cup {key} |-> IF x = key THEN <<None, 0>> ELSE c[x]]
    ELSE IF Expired(t, c[key][2]) THEN [x \in DOMAIN c \ {key} |-> c[x]]
    ELSE c

\* a get that sweeps every expired entry, not only the one it was asked for
GetCacheSweep(c, key, t) ==
    [x \in {y \in DOMAIN c : ~Expired(t, c[y][2])} |-> c[x]]

\* a get that reports the expiry and leaves the entry where it is
GetCacheKeeps(c, key, t) == c

\* a get that pushes back the expiration of the live entry it returns
GetCacheRefresh(c, key, t) ==
    IF key \notin DOMAIN c THEN c
    ELSE IF Expired(t, c[key][2]) THEN [x \in DOMAIN c \ {key} |-> c[x]]
    ELSE [x \in DOMAIN c |->
            IF x = key THEN <<c[x][1], t + TicksPerSecond>> ELSE c[x]]

\* memory.py:53-64  what get leaves in self._cache (del on an expired entry)
GetCache(c, key, t) ==
    IF key \in DOMAIN c /\ Expired(t, c[key][2])
    THEN [x \in DOMAIN c \ {key} |-> c[x]]
    ELSE c

\* a set that keeps an entry already there: self._cache.setdefault(key, ...)
SetCacheIfAbsent(c, key, value, ttl, t) ==
    [x \in DOMAIN c \cup {key} |->
        IF x \in DOMAIN c THEN c[x] ELSE <<value, ExpiresAt(t, ttl)>>]

\* a set that rebinds the dict: self._cache = {key: (value, expires_at)}
SetCacheRebinds(c, key, value, ttl, t) ==
    [x \in {key} |-> <<value, ExpiresAt(t, ttl)>>]

\* a set that drops the expired entries of the other keys on its way
SetCacheSweeps(c, key, value, ttl, t) ==
    [x \in {y \in DOMAIN c : ~Expired(t, c[y][2])} \cup {key} |->
        IF x = key THEN <<value, ExpiresAt(t, ttl)>> ELSE c[x]]

\* memory.py:74-75  self._cache[key] = (value, expires_at)
SetCache(c, key, value, ttl, t) ==
    [x \in DOMAIN c \cup {key} |->
        IF x = key THEN <<value, ExpiresAt(t, ttl)>> ELSE c[x]]

\* a clear that drops the expired entries only
ClearCacheExpired(c) ==
    [x \in {y \in DOMAIN c : ~Expired(now, c[y][2])} |-> c[x]]

\* memory.py:82  self._cache.clear()
ClearCache(c) == EmptyDict

\* a size that counts the live entries only
SizeLive(c) == Cardinality({x \in DOMAIN c : ~Expired(now, c[x][2])})

\* memory.py:92  len(self._cache)
SizeResult(c) == Cardinality(DOMAIN c)

\* -------------------------------------------------- NoopCacheProvider code
\* noop.py:23-34  get: return None
NoopGetResult(st, key) == None

\* a set that stores after all
NoopSetStores(st, key, value, ttl) ==
    [x \in DOMAIN st \cup {key} |-> IF x = key THEN <<value, ttl>> ELSE st[x]]

\* noop.py:36-46  set: pass (the instance has no attribute to store into)
NoopSetState(st, key, value, ttl) == st

\* ------------------------------------------------------- call bookkeeping
\* What the callers have done to a key so far:
\*   st "never"    no set(key) since construction
\*      "cleared"  key was set, then clear() was called, and no set(key) since
\*      "set"      set(key, value, ttl) is the most recent write, no clear()
\*                 since, and no get(key) has been made after its deadline
\*      "expired"  as "set", and a get(key) has been made after the deadline
\*   value, deadline, prev (for "set"): the value written, set-time + ttl in
\*      ticks, and the value that write replaced (NoPrev when none was set)
\*   misses: how many get(key) calls (2 stands for 2 or more) were made on
\*      the key while it was unset or past its deadline, since the last set
Written(st, value, deadline, prev, misses) ==
    [st |-> st, value |-> value, deadline |-> deadline, prev |-> prev,
     misses |-> misses]

Unwritten == Written("never", None, 0, NoPrev, 0)

\* set-time + ttl, in ticks
Deadline(t, ttl) == t + TicksPerSecond * ttl

Bump(n) == IF n < 2 THEN n + 1 ELSE 2

\* The record of a key after get(key) at time t
AfterGet(w, t) ==
    IF w.st = "set"
    THEN IF t > w.deadline THEN Written("expired", None, 0, NoPrev, 1) ELSE w
    ELSE [w EXCEPT !.misses = Bump(@)]

\* The record of a key after set(key, value, ttl) at time t
AfterSet(w, value, ttl, t) ==
    Written("set", value, Deadline(t, ttl),
            IF w.st = "set" THEN w.value ELSE NoPrev, 0)

\* The record of a key after clear()
AfterClear(w) ==
    IF w.st = "never" THEN w ELSE Written("cleared", None, 0, NoPrev, w.misses)

\* A call and its result: ret is what get returns (set and clear return
\* None), n is what size returns
Call(op, key, ret, n) == [op |-> op, key |-> key, ret |-> ret, n |-> n]

NoopCall(op, key, value, ttl, ret) ==
    [op |-> op, key |-> key, value |-> value, ttl |-> ttl, ret |-> ret]

\* A task between two calls: the call it made last, what that call returned
\* (ret; n for size; KeyError when it raised), and how many calls it has made.
\* ------------------------------------------------ provider instances
Instances == {1, 2}

TwoCall(i, op, key, ret, n) ==
    [inst |-> i, op |-> op, key |-> key, ret |-> ret, n |-> n]

\* the value the callers of instance i store: each instance its own
TwoValue(i) == IF i = 1 THEN "v1" ELSE "v2"

\* one dict, made once in the class body, that every instance refers to
ClassDict(i) == 1

\* memory.py:42  self._cache = {}: the dict object the __init__ of
\* instance i creates, a new one at every construction
NewDict(i) == i

\* memory.py:40-42  the two instances after construction
TwoInstances ==
    [ref |-> [i \in Instances |-> NewDict(i)],
     heap |-> [o \in {NewDict(i) : i \in Instances} |-> EmptyDict],
     call |-> TwoCall(0, "init", NoKey, None, 0)]

IdleTask(op, ret, n, calls) ==
    [pc |-> "idle", op |-> op, key |-> NoKey, value |-> None, ttl |-> 0,
     entry |-> <<None, 0>>, at |-> 0, seen |-> Unwritten,
     ret |-> ret, n |-> n, calls |-> calls]

Init ==
    /\ cache = EmptyDict
    /\ now = 0
    /\ call = Call("init", NoKey, None, 0)
    /\ written = [k \in Keys |-> Unwritten]
    /\ noop = EmptyDict
    /\ nlog = <<>>
    /\ host = "one"
    /\ task = [t \in Tasks |-> IdleTask("none", None, 0, 0)]
    /\ snap = EmptyDict
    /\ backend = NoFiles
    /\ bcall = StoreCall("init", <<>>, None, NoFault)
    /\ insts = TwoInstances

\* await cache.get(key)
Get(key) ==
    /\ cache' = GetCache(cache, key, now)
    /\ call' = Call("get", key, GetResult(cache, key, now), 0)
    /\ written' = [written EXCEPT ![key] = AfterGet(@, now)]
    /\ UNCHANGED <<now, noop, nlog, elsewhere>>

\* await cache.set(key, value, ttl)
Set(key, value, ttl) ==
    /\ cache' = SetCache(cache, key, value, ttl, now)
    /\ call' = Call("set", key, None, 0)
    /\ written' = [written EXCEPT ![key] = AfterSet(@, value, ttl, now)]
    /\ UNCHANGED <<now, noop, nlog, elsewhere>>

\* cache.clear()
Clear ==
    /\ cache' = ClearCache(cache)
    /\ call' = Call("clear", NoKey, None, 0)
    /\ written' = [k \in Keys |-> AfterClear(written[k])]
    /\ UNCHANGED <<now, noop, nlog, elsewhere>>

\* cache.size()
Size ==
    /\ call' = Call("size", NoKey, None, SizeResult(cache))
    /\ UNCHANGED <<cache, now, written, noop, nlog, elsewhere>>

\* the clock moves on between two calls
Tick ==
    /\ now < MaxClock
    /\ now' = now + 1
    /\ call' = Call("tick", NoKey, None, 0)
    /\ UNCHANGED <<cache, written, noop, nlog, elsewhere>>

Next ==
    \/ \E k \in Keys : Get(k)
    \/ \E k \in Keys, v \in Values, ttl \in TTLs : Set(k, v, ttl)
    \/ Clear
    \/ Size
    \/ Tick

Spec == Init /\ [][Next]_vars

\* ------------------------------------------- a NoopCacheProvider on its own
\* await noop.get(key)
NoopGet(key) ==
    /\ Len(nlog) < MaxNoopCalls
    /\ nlog' = Append(nlog, NoopCall("get", key, None, 0, NoopGetResult(noop, key)))
    /\ UNCHANGED <<noop, cache, now, call, written, elsewhere>>

\* await noop.set(key, value, ttl)
NoopSet(key, value, ttl) ==
    /\ Len(nlog) < MaxNoopCalls
    /\ noop' = NoopSetState(noop, key, value, ttl)
    /\ nlog' = Append(nlog, NoopCall("set", key, value, ttl, None))
    /\ UNCHANGED <<cache, now, call, written, elsewhere>>

NextNoop ==
    \/ \E k \in Keys : NoopGet(k)
    \/ \E k \in Keys, v \in Values, ttl \in TTLs : NoopSet(k, v, ttl)

SpecNoop == Init /\ [][NextNoop]_vars

\* ---------------------------------- a wall clock that is set back
\* time.time() is the wall clock: between two calls it may be stepped back.
BackTTLs == 0..MaxTTL

\* the wall clock is set back between two calls
TickBack ==
    /\ now > 0
    /\ now' = now - 1
    /\ call' = Call("back", NoKey, None, 0)
    /\ UNCHANGED <<cache, written, noop, nlog, elsewhere>>

NextBack ==
    \/ \E k \in Keys : Get(k)
    \/ \E k \in Keys, v \in TaskValues, ttl \in BackTTLs : Set(k, v, ttl)
    \/ Tick
    \/ TickBack

SpecBack == Init /\ [][NextBack]_vars

\* ----------------------- the example providers: files, and Redis
\* cache_custom.py FileCacheProvider and cache_redis.py RedisCacheProvider.
\* A key is the sequence of its characters.  A stored entry is
\* [data, expires, by, ok]: data and expires as the provider wrote them, by
\* the key of the set that wrote it (history: neither the file nor Redis
\* records it this way), ok FALSE for a file whose content is not the JSON
\* of an entry.

AlNum == {"a", "b", "c"}
StoreKeys == {<<"a", ":", "b">>, <<"a", "_", "b">>, <<"c">>}
\* a value json.dumps rejects with TypeError (a set, an object)
NotJson == "NotJson"
StoreValues == {"v1", "v2", NotJson}
StoreTTLs == {0, 1}
\* what goes wrong in the backend during a call: nothing; the read or the
\* connection fails; the unlink of an expired file fails; the write fails
\* before the file is opened; the write fails after it was truncated
GetFaults == {NoFault, "read", "unlink"}
SetFaults == {NoFault, "write", "torn"}
\* an exception leaving the body of a try block
Raised == "Raised"

\* cache_custom.py:97  c if c.isalnum() or c in "-_" else "_"
SafeChar(c) == IF c \in AlNum \/ c \in {"-", "_"} THEN c ELSE "_"

\* cache_custom.py:92-98  _get_file_path: cache_dir / f"{safe_key}.json"
\* (the directory and the suffix are the same for every key)
GetFilePath(key) == [i \in 1..Len(key) |-> SafeChar(key[i])]

\* cache_custom.py:58  entry.get("expires") and time.time() * 1000 >
\* entry["expires"]: a stored timestamp of 0 is falsy, the comparison is
\* never made (clock and timestamp both in ticks here, both in ms there)
FileExpired(t, expires) == expires # 0 /\ t > expires

\* cache_custom.py:84  time.time() * 1000 + ttl * 1000
FileExpires(t, ttl) == t + ttl * TicksPerSecond

\* cache_custom.py:53-66  the try body of get: read_text raises on a
\* missing or unreadable file, json.loads on a torn one
FileGetBody(fs, key, t, fault) ==
    LET path == GetFilePath(key) IN
    IF fault = "read" \/ path \notin DOMAIN fs THEN Raised
    ELSE IF ~fs[path].ok THEN Raised
    ELSE IF FileExpired(t, fs[path].expires) THEN None
    ELSE fs[path].data

\* cache_custom.py:58-63  what get leaves of the files: the expired file
\* unlinked, unless the unlink fails (inner try/except: pass)
FileGetFiles(fs, key, t, fault) ==
    LET path == GetFilePath(key) IN
    IF /\ fault # "read" /\ path \in DOMAIN fs /\ fs[path].ok
       /\ FileExpired(t, fs[path].expires) /\ fault # "unlink"
    THEN [p \in DOMAIN fs \ {path} |-> fs[p]]
    ELSE fs

\* cache_custom.py:81-88  the try body of set: json.dumps raises on a value
\* it cannot encode, write_text on a file it cannot open or cannot fill
FileSetBody(value, fault) ==
    IF value = NotJson \/ fault # NoFault THEN Raised ELSE None

\* cache_custom.py:88  file_path.write_text(json.dumps(entry, indent=2))
FileSetFiles(fs, key, value, ttl, t, fault) ==
    LET path == GetFilePath(key) IN
    IF value = NotJson \/ fault = "write" THEN fs
    ELSE [p \in DOMAIN fs \cup {path} |->
            IF p # path THEN fs[p]
            ELSE IF fault = "torn" THEN Torn
            ELSE Entry(value, FileExpires(t, ttl), key, TRUE)]

\* a handler that lets the exception through
Reraised(result) == result

\* cache_custom.py:67-69, 89-90; cache_redis.py:41-43, 49-50
\* except Exception: (print,) return None
Caught(result) == IF result = Raised THEN None ELSE result

\* await cache.get(key) on a FileCacheProvider
FileGet(key, fault) ==
    /\ host = "file"
    /\ bcall' = StoreCall("get", key,
                          Caught(FileGetBody(backend, key, now, fault)), fault)
    /\ backend' = FileGetFiles(backend, key, now, fault)
    /\ UNCHANGED <<cache, now, call, written, noop, nlog, insts, host, task, snap>>

\* await cache.set(key, value, ttl) on a FileCacheProvider
FileSet(key, value, ttl, fault) ==
    /\ host = "file"
    /\ bcall' = StoreCall("set", key, Caught(FileSetBody(value, fault)), fault)
    /\ backend' = FileSetFiles(backend, key, value, ttl, now, fault)
    /\ UNCHANGED <<cache, now, call, written, noop, nlog, insts, host, task, snap>>

\* cache_redis.py:39-40  the try body of get: self.redis.get(key) raises
\* when the server cannot be reached, gives nil for a key that is absent
\* or past the expiry the server keeps; json.loads(value) if value else None
RedisGetBody(rs, key, t, fault) ==
    IF fault = "read" THEN Raised
    ELSE IF key \notin DOMAIN rs THEN None
    ELSE IF t >= rs[key].expires THEN None
    ELSE rs[key].data

\* cache_redis.py:48  the try body of set: json.dumps raises on a value it
\* cannot encode, self.redis.set(..., ex=ttl) when the server cannot be
\* reached or rejects the expire time (ex=0)
RedisSetBody(value, ttl, fault) ==
    IF value = NotJson \/ fault # NoFault \/ ttl <= 0 THEN Raised ELSE None

\* cache_redis.py:48  SET key json ex=ttl
RedisSetKeys(rs, key, value, ttl, t, fault) ==
    IF RedisSetBody(value, ttl, fault) = Raised THEN rs
    ELSE [k \in DOMAIN rs \cup {key} |->
            IF k = key THEN Entry(value, t + ttl * TicksPerSecond, key, TRUE)
            ELSE rs[k]]

\* await cache.get(key) on a RedisCacheProvider
RedisGet(key, fault) ==
    /\ host = "redis"
    /\ bcall' = StoreCall("get", key,
                          Caught(RedisGetBody(backend, key, now, fault)), fault)
    /\ UNCHANGED <<cache, now, call, written, noop, nlog, insts, host, task, snap,
                   backend>>

\* await cache.set(key, value, ttl) on a RedisCacheProvider
RedisSet(key, value, ttl, fault) ==
    /\ host = "redis"
    /\ bcall' = StoreCall("set", key,
                          Caught(RedisSetBody(value, ttl, fault)), fault)
    /\ backend' = RedisSetKeys(backend, key, value, ttl, now, fault)
    /\ UNCHANGED <<cache, now, call, written, noop, nlog, insts, host, task, snap>>

\* the clock moves on between two calls
StoreTick ==
    /\ now < MaxStoreClock
    /\ now' = now + 1
    /\ bcall' = StoreCall("tick", <<>>, None, NoFault)
    /\ UNCHANGED <<cache, call, written, noop, nlog, insts, host, task, snap, backend>>

NextStores ==
    \/ \E k \in StoreKeys, f \in GetFaults : FileGet(k, f)
    \/ \E k \in StoreKeys, v \in StoreValues, ttl \in StoreTTLs,
          f \in SetFaults : FileSet(k, v, ttl, f)
    \/ \E k \in StoreKeys, f \in {NoFault, "read"} : RedisGet(k, f)
    \/ \E k \in StoreKeys, v \in StoreValues, ttl \in StoreTTLs,
          f \in {NoFault, "write"} : RedisSet(k, v, ttl, f)
    \/ StoreTick

InitStores ==
    /\ cache = EmptyDict
    /\ now = 0
    /\ call = Call("init", NoKey, None, 0)
    /\ written = [k \in Keys |-> Unwritten]
    /\ noop = EmptyDict
    /\ nlog = <<>>
    /\ host \in {"file", "redis"}
    /\ task = [t \in Tasks |-> IdleTask("none", None, 0, 0)]
    /\ snap = EmptyDict
    /\ backend = NoFiles
    /\ bcall = StoreCall("init", <<>>, None, NoFault)
    /\ insts = TwoInstances

SpecStores == InitStores /\ [][NextStores]_vars

\* ------------------------- MemoryCacheProvider called by several tasks
\* One provider, the tasks of Tasks calling it, each statement of a method
\* one step.  host = "threads": the tasks are threads, any of them may take
\* the next step.  host = "coop": the tasks are coroutines of one event
\* loop, and another task runs only while the one in a call is suspended.

\* an await between the membership test and the read of the entry
SuspendsAt56(pc) == pc = "56"

\* memory.py:44-92  the statements at which a call suspends: the bodies of
\* get, set, clear and size hold no await, so none
Suspends(pc) == FALSE

CanRun(t) ==
    \/ host = "threads"
    \/ /\ host = "coop"
       /\ \A u \in Tasks \ {t} : task[u].pc = "idle" \/ Suspends(task[u].pc)

FirstLine(op) ==
    CASE op = "get" -> "53"
      [] op = "set" -> "74"
      [] op = "clear" -> "82"
      [] op = "size" -> "92"

\* a store that keeps the expiration of an entry already there
StoreEntryKeepsExpiry(c, key, entry) ==
    [x \in DOMAIN c \cup {key} |->
        IF x # key THEN c[x]
        ELSE IF key \in DOMAIN c THEN <<entry[1], c[key][2]>> ELSE entry]

\* memory.py:75  self._cache[key] = (value, expires_at)
StoreEntry(c, key, entry) ==
    [x \in DOMAIN c \cup {key} |-> IF x = key THEN entry ELSE c[x]]

\* memory.py:61  del self._cache[key]
DelKey(c, key) == [x \in DOMAIN c \ {key} |-> c[x]]

\* The task's call returns ret (n for size), or raises when ret is KeyError.
Return(tk, t, ret, n) ==
    [tk EXCEPT ![t] = IdleTask(tk[t].op, ret, n, tk[t].calls + 1)]

\* A set(key) has stored, or clear() has run (key = NoKey): the gets in
\* progress on the key no longer count on the set they found completed.
Unseen(tk, key) ==
    [u \in Tasks |->
        IF tk[u].pc # "idle" /\ tk[u].op = "get"
           /\ (key = NoKey \/ tk[u].key = key)
        THEN [tk[u] EXCEPT !.seen = Unwritten]
        ELSE tk[u]]

\* task t calls get(key), set(key, value, ttl), clear() or size(); seen is
\* the most recent set(key) completed before the call
TaskCall(t, op, key, value, ttl) ==
    /\ task[t].pc = "idle"
    /\ task[t].calls < MaxCalls
    /\ CanRun(t)
    /\ task' = [task EXCEPT ![t] =
            [pc |-> FirstLine(op), op |-> op, key |-> key, value |-> value,
             ttl |-> ttl, entry |-> <<None, 0>>, at |-> 0,
             seen |-> IF op = "get" THEN written[key] ELSE Unwritten,
             ret |-> None, n |-> 0, calls |-> task[t].calls]]
    /\ snap' = IF host = "coop" THEN cache ELSE snap
    /\ UNCHANGED <<cache, now, call, written, noop, nlog, stores, insts, host>>

\* memory.py:53-54  if key not in self._cache: return None
Line53(t) ==
    /\ task[t].pc = "53"
    /\ CanRun(t)
    /\ task' = IF task[t].key \notin DOMAIN cache
               THEN Return(task, t, None, 0)
               ELSE [task EXCEPT ![t].pc = "56"]
    /\ UNCHANGED <<cache, now, call, written, noop, nlog, stores, insts, host, snap>>

\* memory.py:56  value, expires_at = self._cache[key]
Line56(t) ==
    /\ task[t].pc = "56"
    /\ CanRun(t)
    /\ task' = IF task[t].key \notin DOMAIN cache
               THEN Return(task, t, KeyError, 0)
               ELSE [task EXCEPT ![t].pc = "59",
                                 ![t].entry = cache[task[t].key]]
    /\ UNCHANGED <<cache, now, call, written, noop, nlog, stores, insts, host, snap>>

\* memory.py:59,64  if time.time() > expires_at: ... else return value
Line59(t) ==
    /\ task[t].pc = "59"
    /\ CanRun(t)
    /\ task' = IF Expired(now, task[t].entry[2])
               THEN [task EXCEPT ![t].pc = "61", ![t].at = now]
               ELSE Return(task, t, task[t].entry[1], 0)
    /\ UNCHANGED <<cache, now, call, written, noop, nlog, stores, insts, host, snap>>

\* memory.py:61-62  del self._cache[key]; return None
Line61(t) ==
    /\ task[t].pc = "61"
    /\ CanRun(t)
    /\ IF task[t].key \notin DOMAIN cache
       THEN /\ task' = Return(task, t, KeyError, 0)
            /\ cache' = cache
       ELSE /\ task' = Return(task, t, None, 0)
            /\ cache' = DelKey(cache, task[t].key)
    /\ UNCHANGED <<now, call, written, noop, nlog, stores, insts, host, snap>>

\* memory.py:74  expires_at = time.time() + ttl
Line74(t) ==
    /\ task[t].pc = "74"
    /\ CanRun(t)
    /\ task' = [task EXCEPT
            ![t].pc = "75",
            ![t].at = now,
            ![t].entry = <<task[t].value, ExpiresAt(now, task[t].ttl)>>]
    /\ UNCHANGED <<cache, now, call, written, noop, nlog, stores, insts, host, snap>>

\* memory.py:75  self._cache[key] = (value, expires_at)
Line75(t) ==
    /\ task[t].pc = "75"
    /\ CanRun(t)
    /\ cache' = StoreEntry(cache, task[t].key, task[t].entry)
    /\ written' = [written EXCEPT ![task[t].key] =
            AfterSet(@, task[t].value, task[t].ttl, task[t].at)]
    /\ task' = Return(Unseen(task, task[t].key), t, None, 0)
    /\ UNCHANGED <<now, call, noop, nlog, stores, insts, host, snap>>

\* memory.py:82  self._cache.clear()
Line82(t) ==
    /\ task[t].pc = "82"
    /\ CanRun(t)
    /\ cache' = ClearCache(cache)
    /\ written' = [k \in Keys |-> AfterClear(written[k])]
    /\ task' = Return(Unseen(task, NoKey), t, None, 0)
    /\ UNCHANGED <<now, call, noop, nlog, stores, insts, host, snap>>

\* memory.py:92  return len(self._cache)
Line92(t) ==
    /\ task[t].pc = "92"
    /\ CanRun(t)
    /\ task' = Return(task, t, None, SizeResult(cache))
    /\ UNCHANGED <<cache, now, call, written, noop, nlog, stores, insts, host, snap>>

\* the clock moves on, between two statements as well
TaskTick ==
    /\ now < MaxTaskClock
    /\ now' = now + 1
    /\ UNCHANGED <<cache, call, written, noop, nlog, stores, insts, host, task, snap>>

NextTasks ==
    \/ \E t \in Tasks, k \in TaskKeys : TaskCall(t, "get", k, None, 0)
    \/ \E t \in Tasks, k \in TaskKeys, v \in TaskValues, ttl \in TaskTTLs :
            TaskCall(t, "set", k, v, ttl)
    \/ \E t \in Tasks : TaskCall(t, "clear", NoKey, None, 0)
    \/ \E t \in Tasks : TaskCall(t, "size", NoKey, None, 0)
    \/ \E t \in Tasks : Line53(t)
    \/ \E t \in Tasks : Line56(t)
    \/ \E t \in Tasks : Line59(t)
    \/ \E t \in Tasks : Line61(t)
    \/ \E t \in Tasks : Line74(t)
    \/ \E t \in Tasks : Line75(t)
    \/ \E t \in Tasks : Line82(t)
    \/ \E t \in Tasks : Line92(t)
    \/ TaskTick

InitHost(h) ==
    /\ cache = EmptyDict
    /\ now = 0
    /\ call = Call("init", NoKey, None, 0)
    /\ written = [k \in Keys |-> Unwritten]
    /\ noop = EmptyDict
    /\ nlog = <<>>
    /\ host = h
    /\ task = [t \in Tasks |-> IdleTask("none", None, 0, 0)]
    /\ snap = EmptyDict
    /\ backend = NoFiles
    /\ bcall = StoreCall("init", <<>>, None, NoFault)
    /\ insts = TwoInstances

SpecThreads == InitHost("threads") /\ [][NextTasks]_vars

SpecCoop == InitHost("coop") /\ [][NextTasks]_vars

\* ------------------------------------ two MemoryCacheProvider instances
\* Two providers built one after the other and called in any order.  The
\* dicts live on a heap of objects; an instance holds in self._cache a
\* reference to one of them, the one its __init__ created.

\* what self._cache of instance i refers to
DictOf(s, i) == s.heap[s.ref[i]]

\* await instance.get(key)
TwoGet(i, key) ==
    /\ host = "two"
    /\ insts' = [insts EXCEPT
            !.heap[insts.ref[i]] = GetCache(@, key, now),
            !.call = TwoCall(i, "get", key,
                             GetResult(DictOf(insts, i), key, now), 0)]
    /\ UNCHANGED <<cache, now, call, written, noop, nlog, host, task, snap,
                   stores>>

\* await instance.set(key, value, ttl)
TwoSet(i, key, value, ttl) ==
    /\ host = "two"
    /\ insts' = [insts EXCEPT
            !.heap[insts.ref[i]] = SetCache(@, key, value, ttl, now),
            !.call = TwoCall(i, "set", key, None, 0)]
    /\ UNCHANGED <<cache, now, call, written, noop, nlog, host, task, snap,
                   stores>>

\* instance.clear()
TwoClear(i) ==
    /\ host = "two"
    /\ insts' = [insts EXCEPT
            !.heap[insts.ref[i]] = ClearCache(@),
            !.call = TwoCall(i, "clear", NoKey, None, 0)]
    /\ UNCHANGED <<cache, now, call, written, noop, nlog, host, task, snap,
                   stores>>

\* instance.size()
TwoSize(i) ==
    /\ host = "two"
    /\ insts' = [insts EXCEPT
            !.call = TwoCall(i, "size", NoKey, None,
                             SizeResult(DictOf(insts, i)))]
    /\ UNCHANGED <<cache, now, call, written, noop, nlog, host, task, snap,
                   stores>>

\* the clock moves on between two calls
TwoTick ==
    /\ host = "two"
    /\ now < MaxTwoClock
    /\ now' = now + 1
    /\ insts' = [insts EXCEPT !.call = TwoCall(0, "tick", NoKey, None, 0)]
    /\ UNCHANGED <<cache, call, written, noop, nlog, host, task, snap, stores>>

NextTwo ==
    \/ \E i \in Instances, k \in Keys : TwoGet(i, k)
    \/ \E i \in Instances, k \in Keys, ttl \in TaskTTLs :
            TwoSet(i, k, TwoValue(i), ttl)
    \/ \E i \in Instances : TwoClear(i)
    \/ \E i \in Instances : TwoSize(i)
    \/ TwoTick

SpecTwo == InitHost("two") /\ [][NextTwo]_vars

\* ==================================================================== claims
\* The step just taken is get(k): call' records it, the unprimed variables
\* are the provider and the key's record as the call found them.
GetStep(k) == call'.op = "get" /\ call'.key = k
SetStep(k) == call'.op = "set" /\ call'.key = k

\* ------------------------------------------------------------------------ C1
\* C1: MemoryCacheProvider never returns an expired value.  Whenever get(k)
\* is called at a clock reading strictly greater than set-time + ttl of the
\* most recent set(k, v, ttl) (whether this is the first get after that
\* instant or a later one, and for ttl = 0 and ttl < 0 as well), it returns
\* None and the entry is not resident afterwards.
C1_NeverReturnsExpired ==
    [][\A k \in Keys :
        (/\ GetStep(k)
         /\ \/ written[k].st = "set" /\ now > written[k].deadline
            \/ written[k].st = "expired")
        => call'.ret = None /\ k \notin DOMAIN cache']_vars

\* the first get after the deadline of a set, at a later clock reading than
\* the construction, returned None and left no entry
C1_Witness ==
    /\ call.op = "get"
    /\ call.ret = None
    /\ written[call.key].st = "expired"
    /\ written[call.key].misses = 1
    /\ call.key \notin DOMAIN cache
    /\ now > 0

\* ------------------------------------------------------------------------ C2
\* C2: the expiration boundary is treated as expired: a get(k) whose clock
\* reading equals set-time + ttl of the most recent set(k) returns None, in
\* particular set(k, v, ttl=0) followed by get(k) at the same clock reading.
C2_BoundaryIsExpired ==
    [][\A k \in Keys :
        (GetStep(k) /\ written[k].st = "set" /\ now = written[k].deadline)
        => call'.ret = None]_vars

\* ------------------------------------------------------------------------ C3
\* C3: after set(k, v, ttl), a get(k) at any clock reading strictly before
\* set-time + ttl, with no set(k) or clear() in between and whatever was
\* done to other keys in between, returns exactly v and keeps the entry.
C3_GetReturnsStored ==
    [][\A k \in Keys :
        (GetStep(k) /\ written[k].st = "set" /\ now < written[k].deadline)
        => /\ call'.ret = written[k].value
           /\ k \in DOMAIN cache'
           /\ cache'[k][1] = written[k].value]_vars

\* a get of one key returned its value, strictly before the deadline and at a
\* later clock reading than the set, after the other key had been set and
\* found expired by a get
C3_Witness ==
    /\ call.op = "get"
    /\ call.ret \in Values \ {None}
    /\ written[call.key].st = "set"
    /\ written[call.key].value = call.ret
    /\ written[call.key].deadline = now + 1
    /\ \E k \in Keys \ {call.key} : written[k].st = "expired"

\* ------------------------------------------------------------------------ C4
\* The entry of k is the same before and after the step.
SameEntry(k) ==
    /\ k \in DOMAIN cache <=> k \in DOMAIN cache'
    /\ k \in DOMAIN cache => cache'[k] = cache[k]

\* C4: overwrite law.  A set(k, v2, ttl2) at t2 over an entry left by
\* set(k, v1, ttl1) leaves one entry for k, <<v2, t2 + ttl2>>, whatever the
\* old expiration was, and the same set of resident keys (size() does not
\* grow).  A get(k) after the two sets returns v2 while the clock is below
\* t2 + ttl2 and None once it exceeds t2 + ttl2; it returns v2 or None and so
\* never v1 (for a v1 that is neither v2 nor None, the stored None reading
\* like a miss).
C4_OverwriteLaw ==
    [][\A k \in Keys :
        /\ (SetStep(k) /\ written[k].st = "set")
           => /\ DOMAIN cache' = DOMAIN cache
              /\ cache'[k] = <<written'[k].value, written'[k].deadline>>
        /\ (GetStep(k) /\ written[k].st = "set" /\ written[k].prev # NoPrev)
           => /\ now < written[k].deadline => call'.ret = written[k].value
              /\ now > written[k].deadline => call'.ret = None
              /\ call'.ret \in {written[k].value, None}
              /\ written[k].prev \notin {written[k].value, None}
                    => call'.ret # written[k].prev]_vars

\* a get returned v2, before t2 + ttl2, after v2 had replaced a different
\* value v1 in the one entry of the key
C4_Witness ==
    /\ call.op = "get"
    /\ written[call.key].st = "set"
    /\ written[call.key].prev \in Values \ {None, written[call.key].value}
    /\ call.ret = written[call.key].value
    /\ call.ret # None
    /\ now > 0
    /\ now < written[call.key].deadline
    /\ Cardinality(DOMAIN cache) = 1

\* ------------------------------------------------------------------------ C5
\* C5: clear() empties the mapping whatever it held: right after it the
\* mapping is empty, a size() called next returns 0, and a get(k) of a key
\* that had been set before the clear returns None until k is set again; a
\* set(k, v, ttl) after the clear stores <<v, now + ttl>> as usual.
C5_ClearEmpties ==
    [][/\ call'.op = "clear"
            => cache' = EmptyDict /\ Cardinality(DOMAIN cache') = 0
       /\ (call'.op = "size" /\ call.op = "clear") => call'.n = 0
       /\ \A k \in Keys :
            /\ (GetStep(k) /\ written[k].st = "cleared")
               => call'.ret = None /\ k \notin DOMAIN cache'
            /\ (SetStep(k) /\ written[k].st = "cleared")
               => /\ k \in DOMAIN cache'
                  /\ cache'[k] = <<written'[k].value, written'[k].deadline>>]_vars

\* two keys were set, clear() was called, and a get of one of them missed
C5_Witness ==
    /\ call.op = "get"
    /\ call.ret = None
    /\ \A k \in Keys : written[k].st = "cleared"
    /\ written[call.key].misses = 1
    /\ cache = EmptyDict

\* ------------------------------------------------------------------------ C6
\* C6: NoopCacheProvider always misses: whatever set calls were made, with
\* whatever arguments, every get returned None, every set returned (None),
\* and the provider holds nothing.
C6_NoopAlwaysMisses ==
    /\ noop = EmptyDict
    /\ \A i \in 1..Len(nlog) : nlog[i].ret = None

\* set(k, v, ttl > 0) and then get(k) of the same key missed
C6_Witness ==
    /\ Len(nlog) = 2
    /\ nlog[1].op = "set" /\ nlog[1].value # None /\ nlog[1].ttl > 0
    /\ nlog[2].op = "get" /\ nlog[2].key = nlog[1].key
    /\ nlog[2].ret = None

\* ------------------------------------------------------------------------ C7
\* C7: a get(k) of a key never passed to set, or not since the last clear,
\* returns None and leaves the mapping (and so size()) as it was, whatever
\* entries the other keys have.
C7_GetUnsetNoEffect ==
    [][\A k \in Keys :
        (GetStep(k) /\ written[k].st \in {"never", "cleared"})
        => /\ call'.ret = None
           /\ cache' = cache
           /\ Cardinality(DOMAIN cache') = Cardinality(DOMAIN cache)]_vars

\* a get of a key never set missed while the other key held an entry past its
\* deadline, which stayed
C7_Witness ==
    /\ call.op = "get"
    /\ call.ret = None
    /\ written[call.key].st = "never"
    /\ \E k \in Keys \ {call.key} :
        /\ written[k].st = "set"
        /\ now > written[k].deadline
        /\ k \in DOMAIN cache

\* ------------------------------------------------------------------------ C8
\* C8: size() counts the resident entries: the keys set since the last
\* clear whose expiry no get has observed, past their deadline or not.  A
\* tick of the clock leaves the count as it is, and an entry leaves the
\* mapping only in a get of its key or in a clear.
C8_SizeCountsResident ==
    [][/\ call'.op = "size"
            => call'.n = Cardinality({k \in Keys : written[k].st = "set"})
       /\ call'.op = "tick"
            => Cardinality(DOMAIN cache') = Cardinality(DOMAIN cache)
       /\ \A k \in Keys :
            (k \in DOMAIN cache /\ k \notin DOMAIN cache')
            => GetStep(k) \/ call'.op = "clear"]_vars

\* set at t = 0 with ttl = 1; size() at t = 1.5 returned 1
C8_Witness ==
    /\ call.op = "size"
    /\ call.n = 1
    /\ 2 * now = 3 * TicksPerSecond
    /\ \E k \in Keys :
        /\ written[k].st = "set"
        /\ written[k].value # None
        /\ written[k].deadline = TicksPerSecond

\* ------------------------------------------------------------------------ C9
\* C9: keys expire independently.  What get(k) returns is fixed by the most
\* recent set(k)/clear and the clock reading: v before set-time + ttl, None
\* after it and for an unset key; and a get or set of another key leaves
\* the entry of k as it was.
C9_KeysIndependent ==
    [][\A k \in Keys :
        /\ GetStep(k)
           => /\ (written[k].st = "set" /\ now < written[k].deadline)
                    => call'.ret = written[k].value
              /\ (written[k].st = "set" /\ now = written[k].deadline)
                    => call'.ret \in {written[k].value, None}
              /\ (written[k].st # "set" \/ now > written[k].deadline)
                    => call'.ret = None
        /\ (call'.op \in {"get", "set"} /\ call'.key # k) => SameEntry(k)]_vars

\* both keys were set; a get of one found it expired, and a later get of the
\* other still returned its value
C9_Witness ==
    /\ call.op = "get"
    /\ call.ret \in Values \ {None}
    /\ written[call.key].st = "set"
    /\ now > 0
    /\ now < written[call.key].deadline
    /\ \E k \in Keys \ {call.key} : written[k].st = "expired"

\* ----------------------------------------------------------------------- C10
\* C10: idempotence of miss.  A get(k) of an unset or expired key returns
\* None and changes nothing but, at most, the entry of k, which it removes;
\* once a get(k) has missed, every later get(k) with no set(k) in between
\* returns None and leaves the mapping exactly as it was.
C10_MissIdempotent ==
    [][\A k \in Keys :
        /\ (/\ GetStep(k)
            /\ \/ written[k].st # "set"
               \/ now > written[k].deadline)
           => /\ call'.ret = None
              /\ k \notin DOMAIN cache'
              /\ \A x \in Keys \ {k} : SameEntry(x)
        /\ (GetStep(k) /\ written[k].misses >= 1)
           => /\ call'.ret = None
              /\ cache' = cache]_vars

\* a second get of a key found expired by an earlier get, with the other key
\* resident past its own deadline
C10_Witness ==
    /\ call.op = "get"
    /\ call.ret = None
    /\ written[call.key].st = "expired"
    /\ written[call.key].misses = 2
    /\ \E k \in Keys \ {call.key} :
        written[k].st = "set" /\ now > written[k].deadline /\ k \in DOMAIN cache

\* --------------------------------------------------------------- tasks
\* task t's call in progress returns (or raises) in this step
Returns(t) == task[t].pc # "idle" /\ task'[t].pc = "idle"

\* C11: a get(k) that starts after a set(k, v, ttl) has completed, with no
\* later set(k) or clear() before it returns, and that returns strictly
\* before the deadline of that set, returns v -- whatever the other task
\* does in between, an eviction by its get included.
C11_CompletedSetVisible ==
    [][\A t \in Tasks :
        (/\ Returns(t)
         /\ task[t].op = "get"
         /\ task[t].seen.st = "set"
         /\ now < task[t].seen.deadline)
        => task'[t].ret = task[t].seen.value]_vars

\* C12: no call raises: a get never fails on the lookup of line 56 or the
\* delete of line 61, whatever get, set and clear of the other task run
\* between its statements.
C12_GetNeverRaises == \A t \in Tasks : task[t].ret # KeyError

\* C13: sets running together on one key leave one of the pairs that were
\* written: when a set stores, the key holds the value and the expiration of
\* that one set, and whenever the key is resident its value and expiration
\* are those of the set that stored last.
C13_OneWrittenPair ==
    [][/\ \A t \in Tasks :
            (Returns(t) /\ task[t].op = "set")
            => /\ task[t].key \in DOMAIN cache'
               /\ cache'[task[t].key] =
                    <<task[t].value, ExpiresAt(task[t].at, task[t].ttl)>>
       /\ \A k \in DOMAIN cache' :
            /\ written'[k].st = "set"
            /\ cache'[k] = <<written'[k].value, written'[k].deadline>>]_vars

\* two sets on one key are past line 74 with different values and different
\* expirations, one has stored and the other stores next
C13_Witness ==
    \E t, u \in Tasks :
        /\ task[t].pc = "75"
        /\ task[u].pc = "idle" /\ task[u].op = "set"
        /\ "a" \in DOMAIN cache
        /\ cache["a"][1] # task[t].entry[1]
        /\ cache["a"][2] # task[t].entry[2]

\* the clock reading a call in progress acts on: the one taken at line 59
\* or 74 when it holds one, the present one otherwise
ActsAt(t) == IF task[t].pc \in {"61", "75"} THEN task[t].at ELSE now

\* C20: on one event loop every call is atomic: at most one task is inside
\* a call, and a call returns what the method computes in one piece from
\* the mapping it found, and leaves the mapping that one piece leaves
\* (never a KeyError) -- the calls line up one after another without a lock.
C20_CoopCallsAtomic ==
    [][/\ \A t, u \in Tasks :
            t # u => task'[t].pc = "idle" \/ task'[u].pc = "idle"
       /\ \A t \in Tasks :
            Returns(t) =>
              /\ task'[t].ret # KeyError
              /\ task[t].op = "get" =>
                    /\ task'[t].ret = GetResult(snap, task[t].key, ActsAt(t))
                    /\ cache' = GetCache(snap, task[t].key, ActsAt(t))
              /\ task[t].op = "set" =>
                    cache' = SetCache(snap, task[t].key, task[t].value,
                                      task[t].ttl, ActsAt(t))
              /\ task[t].op = "clear" => cache' = ClearCache(snap)
              /\ task[t].op = "size" =>
                    /\ task'[t].n = SizeResult(snap)
                    /\ cache' = snap]_vars

\* one coroutine is about to evict at line 61 the entry the other
\* coroutine's set stored, the other having a call left to make
C20_Witness ==
    \E t, u \in Tasks :
        /\ host = "coop"
        /\ task[t].pc = "61"
        /\ task[u].pc = "idle" /\ task[u].op = "set"
        /\ task[u].calls < MaxCalls
        /\ task[t].key \in DOMAIN cache

\* ------------------------------------------------- frame of get and set
\* C16: a get(k) on a live entry leaves the whole mapping as it was, the
\* expiration of k included; a get(k) on an expired entry removes the entry
\* of k and nothing else: size drops by one and every other entry stays,
\* expired or not.
C16_GetFrame ==
    [][\A k \in Keys :
        (GetStep(k) /\ k \in DOMAIN cache) =>
            IF Expired(now, cache[k][2])
            THEN /\ DOMAIN cache' = DOMAIN cache \ {k}
                 /\ Cardinality(DOMAIN cache') = Cardinality(DOMAIN cache) - 1
                 /\ \A x \in DOMAIN cache' : cache'[x] = cache[x]
            ELSE cache' = cache]_vars

\* get(k) has just evicted k while another key, itself past its
\* expiration, is still resident
C16_Witness ==
    /\ call.op = "get" /\ call.ret = None
    /\ written[call.key].st = "expired" /\ written[call.key].misses = 1
    /\ \E x \in DOMAIN cache : x # call.key /\ Expired(now, cache[x][2])

\* C18: set and size evict nothing: a set(k) leaves every other entry as it
\* was and k resident, size leaves the mapping as it was, so over set and
\* size calls the size never drops -- and where only set and size have
\* been called it is the number of distinct keys set.
C18_OnlyReadOrClearEvicts ==
    [][/\ \A k \in Keys :
            SetStep(k) =>
                /\ DOMAIN cache' = DOMAIN cache \cup {k}
                /\ \A x \in DOMAIN cache \ {k} : cache'[x] = cache[x]
       /\ call'.op = "size" => cache' = cache
       /\ call'.op \in {"set", "size"} =>
            /\ Cardinality(DOMAIN cache') >= Cardinality(DOMAIN cache)
            /\ (\A x \in Keys : written[x].st \in {"never", "set"}
                                /\ written[x].misses = 0)
               => Cardinality(DOMAIN cache') =
                    Cardinality({x \in Keys : written'[x].st = "set"})]_vars

\* size() has just counted two entries, both past their expiration, one of
\* them set twice, and no get has missed and no clear has removed a key
C18_Witness ==
    /\ call.op = "size" /\ call.n = 2
    /\ \A x \in Keys : /\ written[x].st = "set" /\ written[x].misses = 0
                       /\ Expired(now, cache[x][2])
    /\ \E x \in Keys : written[x].prev # NoPrev

\* ------------------------------------------------------ expiry is final
\* C17: right after a get(k) at clock t the mapping holds no entry of k
\* that expired before t, and once a get has found k expired no later get
\* returns a value for k before a new set(k) -- also when the wall clock
\* has been set back in between.
C17_ExpiryIsFinal ==
    [][\A k \in Keys :
        GetStep(k) =>
            /\ k \in DOMAIN cache' => ~(cache'[k][2] < now)
            /\ written[k].st = "expired" =>
                    call'.ret = None /\ k \notin DOMAIN cache']_vars

\* an entry, whose expiration is 0 or later, was evicted by a get, the
\* clock has been set back to 0, and a get there has missed again
C17_Witness ==
    /\ call.op = "get" /\ call.ret = None
    /\ written[call.key].st = "expired" /\ written[call.key].misses = 2
    /\ now = 0

\* ------------------------------------------------ the example providers
\* C14: the FileCacheProvider keeps distinct keys apart: a get(k) that
\* returns data returns what a set(k) stored, never what a set of another
\* key ("a:b" for "a_b") stored in a file the two keys share.
C14_FileKeysApart ==
    (host = "file" /\ bcall.op = "get" /\ bcall.ret # None)
    => /\ GetFilePath(bcall.key) \in DOMAIN backend
       /\ backend[GetFilePath(bcall.key)].by = bcall.key

\* C15: a fault of the backend never reaches the caller, in the file and in
\* the Redis provider: no call ends in an exception, a get during which
\* the read fails returns None and creates no entry, a set returns None
\* whether or not the write went through.
C15_FaultsContained ==
    [][/\ bcall'.ret # Raised
       /\ (bcall'.op = "get" /\ bcall'.fault = "read")
            => bcall'.ret = None /\ backend' = backend
       /\ bcall'.op = "get" => DOMAIN backend' \subseteq DOMAIN backend
       /\ bcall'.op = "set" => bcall'.ret = None]_vars

\* a get has just returned None because the read failed, while the entry
\* of its key is stored and not expired
C15_Witness ==
    /\ bcall.op = "get" /\ bcall.fault = "read" /\ bcall.ret = None
    /\ \E p \in DOMAIN backend :
        /\ backend[p].ok /\ backend[p].by = bcall.key
        /\ backend[p].expires > now

\* C19: the FileCacheProvider expires by the timestamp in the file, for
\* every key, ttl >= 0 and set-time: a get of a key whose own entry is in
\* its file returns None and deletes the file when the clock is past the
\* stored set-time + ttl (a stored 0 included), and returns the data when
\* the clock is before it.
C19_FileExpiryByTimestamp ==
    [][\A k \in StoreKeys :
        LET path == GetFilePath(k) IN
        (/\ host = "file"
         /\ bcall'.op = "get" /\ bcall'.key = k /\ bcall'.fault = NoFault
         /\ path \in DOMAIN backend
         /\ backend[path].ok /\ backend[path].by = k)
        => /\ now > backend[path].expires
                => bcall'.ret = None /\ path \notin DOMAIN backend'
           /\ now < backend[path].expires
                => bcall'.ret = backend[path].data]_vars

\* ------------------------------------------------------- negative ttl
\* the entry of k is the one a set wrote, and it expired before now
StoredExpired(k) == written[k].st = "set" /\ written[k].deadline < now

\* C21: set(k, v, ttl) with ttl < 0 stores, without error, an entry that is
\* expired from the start: the entry is resident and counted by size(), its
\* expiration lies before the clock reading of the set, a get(k) at that
\* very reading would miss; and as long as no get(k), set(k) or clear()
\* has run the entry stays resident and counted, while the first get(k), at
\* whatever later reading, returns None and evicts it.
C21_NegativeTTLStoresExpired ==
    [][\A k \in Keys :
        /\ (SetStep(k) /\ written'[k].deadline < now)
            => /\ k \in DOMAIN cache'
               /\ cache'[k] = <<written'[k].value, written'[k].deadline>>
               /\ SizeResult(cache') = Cardinality(DOMAIN cache \cup {k})
               /\ GetResult(cache', k, now) = None
        /\ StoredExpired(k)
            => /\ k \in DOMAIN cache
               /\ GetStep(k) => call'.ret = None /\ k \notin DOMAIN cache'
               /\ call'.op = "size" =>
                    /\ call'.n = Cardinality(DOMAIN cache)
                    /\ k \in DOMAIN cache'
               /\ call'.op = "tick" => k \in DOMAIN cache']_vars

\* at clock reading 0 a get has just evicted an entry: one that a set with
\* a negative ttl stored at that same reading (a ttl >= 0 would not have
\* expired yet)
C21_Witness ==
    /\ now = 0
    /\ call.op = "get" /\ call.ret = None
    /\ written[call.key].st = "expired" /\ written[call.key].misses = 1

\* ------------------------------------------------------- a stored None
\* C23: a miss and a stored None look the same: a get(k) strictly before
\* the deadline of a set(k, None, ttl) returns None, which is what the same
\* get returns with the entry of k taken away, yet the entry stays
\* resident, the mapping and its size are as before; for a stored value
\* other than None the get returns that value, never None.
C23_StoredNoneLooksLikeMiss ==
    [][\A k \in Keys :
        (GetStep(k) /\ written[k].st = "set" /\ now < written[k].deadline)
        => IF written[k].value = None
           THEN /\ call'.ret = None
                /\ call'.ret = GetResult(DelKey(cache, k), k, now)
                /\ k \in DOMAIN cache'
                /\ cache' = cache
                /\ SizeResult(cache') = SizeResult(cache)
           ELSE call'.ret # None /\ call'.ret = written[k].value]_vars

\* a get has just returned None for a key whose entry, with None stored in
\* it, is resident and not yet at its deadline, and no get of the key has
\* missed since it was set
C23_Witness ==
    /\ call.op = "get" /\ call.ret = None
    /\ written[call.key].st = "set" /\ written[call.key].value = None
    /\ written[call.key].misses = 0
    /\ now < written[call.key].deadline
    /\ call.key \in DOMAIN cache /\ cache[call.key][1] = None

\* ------------------------------------------------- instances are apart
\* C22: two MemoryCacheProvider instances share no entries: a get (with or
\* without eviction), set, clear or size on one instance leaves the dict of
\* the other as it was, and with it the result of every get and of size()
\* on the other; and what a get returns is a value stored through its own
\* instance.
C22_InstancesIsolated ==
    [][\A i, j \in Instances :
        (i # j /\ insts'.call.inst = i) =>
            /\ DictOf(insts', j) = DictOf(insts, j)
            /\ SizeResult(DictOf(insts', j)) = SizeResult(DictOf(insts, j))
            /\ \A k \in Keys :
                GetResult(DictOf(insts', j), k, now)
                    = GetResult(DictOf(insts, j), k, now)
            /\ insts'.call.op = "get" =>
                    insts'.call.ret \in {None, TwoValue(i)}]_vars

\* a get on one instance has just returned None and left the key absent
\* there, in a dict that holds another key, while the other instance holds
\* that same key in an entry that is expired too
C22_Witness ==
    \E i, j \in Instances :
        /\ i # j
        /\ insts.call.inst = i /\ insts.call.op = "get"
        /\ insts.call.ret = None
        /\ insts.call.key \notin DOMAIN DictOf(insts, i)
        /\ DOMAIN DictOf(insts, i) # {}
        /\ insts.call.key \in DOMAIN DictOf(insts, j)
        /\ Expired(now, DictOf(insts, j)[insts.call.key][2])

====
